---- MODULE Spec2Model ----
(***************************************************************************)
(* generate-secure-pillar, package sls: the secure-value tree processor    *)
(* (PerformAction / ProcessValues / doSlice / doMap / doString), the safe  *)
(* read (ReadBytes / ScanForIncludes) and the atomic write.                *)
(*                                                                         *)
(* A Go string is a sequence of tokens.  The 27-character literal          *)
(* pgpHeader is one token, so strings.Contains and a prefix test differ.   *)
(* A YAML value (Go interface{}) is a record tagged by its dynamic type:   *)
(*   [t |-> "str", s |-> string]      string                               *)
(*   [t |-> "nil"]                    nil interface                        *)
(*   [t |-> "int", n |-> Int]         any other scalar kind                *)
(*   [t |-> "seq", items |-> seq]     []interface{}                        *)
(*   [t |-> "map", m |-> function]    map[interface{}]interface{}          *)
(***************************************************************************)
EXTENDS Integers, Sequences, FiniteSets, TLC

VARIABLES Values, KeyMap, EncryptionPath, IsInclude, last, leaf, dst, tmp, open, std, aw, rd

vars == <<Values, KeyMap, EncryptionPath, IsInclude, last, leaf, dst, tmp, open, std, aw, rd>>

docVars == <<Values, KeyMap, EncryptionPath, IsInclude, last>>

ioVars == <<dst, tmp, open, std, aw, rd>>

-----------------------------------------------------------------------------
(* Bounds of the model *)

\* longest text handed to ReadBytes, in lines
MaxLines == 2

\* longest plaintext given to the leaf strategies, in tokens
MaxStrLen == 2

\* most leaf strategies applied in a row to one string
MaxApply == 2

\* longest buffer handed to WriteSlsFile, in bytes
MaxBuf == 2

\* most PerformAction calls made on one Sls object
MaxCalls == 2

-----------------------------------------------------------------------------
(* Constants of package sls *)

pgpHeader == <<"-----BEGIN PGP MESSAGE-----">>

Encrypt == "encrypt"

Decrypt == "decrypt"

Validate == "validate"

Rotate == "rotate"

Actions == {Encrypt, Decrypt, Validate, Rotate}

\* error values: NoErr is Go's nil error
NoErr == "nil"

ErrEncrypt == "encrypt failed"

ErrDecrypt == "error decrypting value"

ErrNotEncrypted == "value is not encrypted"

ErrKeyInfo == "keyInfo"

ErrPanic == "panic: nil pointer dereference"

ErrNoValues == "has no values to format"

ErrYaml == "yaml: unmarshal error"

ErrInclude == "contains include directives"

-----------------------------------------------------------------------------
(* Values *)

Nil == [t |-> "nil"]

Str(s) == [t |-> "str", s |-> s]

IntV(n) == [t |-> "int", n |-> n]

SeqV(items) == [t |-> "seq", items |-> items]

MapV(m) == [t |-> "map", m |-> m]

EmptyMap == <<>>

\* m with key k set to v (Go: m[k] = v)
MapSet(m, k, v) == [x \in (DOMAIN m) \cup {k} |-> IF x = k THEN v ELSE m[x]]

-----------------------------------------------------------------------------
(* Strings *)

\* strings.Contains(str, sub)
Contains(str, sub) ==
  \E i \in 1..(Len(str) - Len(sub) + 1) : SubSeq(str, i, i + Len(sub) - 1) = sub

\* strings.HasPrefix(str, sub)
HasPrefix(str, sub) ==
  Len(str) >= Len(sub) /\ SubSeq(str, 1, Len(sub)) = sub

RECURSIVE Split(_, _)
\* strings.Split(s, sep) for a one-token separator
Split(s, sep) ==
  IF \E i \in 1..Len(s) : s[i] = sep
  THEN LET i == CHOOSE j \in 1..Len(s) : s[j] = sep /\ \A h \in 1..(j - 1) : s[h] # sep
       IN <<SubSeq(s, 1, i - 1)>> \o Split(SubSeq(s, i + 1, Len(s)), sep)
  ELSE <<s>>

isEncrypted(str) == Contains(str, pgpHeader)

-----------------------------------------------------------------------------
(* Key Backend (package pki): deterministic per call; bad is the set of     *)
(* inputs on which the backend fails during the call.                      *)

\* a backend result: [ok, out]
PkiEncryptSecret(s, bad) ==
  IF s \in bad THEN [ok |-> FALSE, out |-> <<>>]
  ELSE [ok |-> TRUE, out |-> pgpHeader \o s]

\* ciphertext is the marker followed by the body; anything else is corrupt
PkiDecryptSecret(c, bad) ==
  IF HasPrefix(c, pgpHeader) /\ ~Contains(Tail(c), pgpHeader) /\ Tail(c) \notin bad
  THEN [ok |-> TRUE, out |-> Tail(c)]
  ELSE [ok |-> FALSE, out |-> <<>>]

KeyId == <<"key-id">>

PkiKeyUsedForEncryptedFile(c, bad) ==
  IF HasPrefix(c, pgpHeader) /\ ~Contains(Tail(c), pgpHeader) /\ Tail(c) \notin bad
  THEN [ok |-> TRUE, out |-> KeyId]
  ELSE [ok |-> FALSE, out |-> <<>>]

\* one backend call, as recorded in the log
Call(op, arg, ok) == [op |-> op, arg |-> arg, ok |-> ok]

-----------------------------------------------------------------------------
(* Leaf strategies.  A result is [val, err, calls]. *)

decryptVal(strVal, bad) ==
  IF isEncrypted(strVal)
  THEN LET r == PkiDecryptSecret(strVal, bad)
       IN IF ~r.ok
          THEN [val |-> strVal, err |-> ErrDecrypt, calls |-> <<Call("decrypt", strVal, FALSE)>>]
          ELSE [val |-> r.out, err |-> NoErr, calls |-> <<Call("decrypt", strVal, TRUE)>>]
  ELSE [val |-> strVal, err |-> NoErr, calls |-> <<>>]

encryptVal(strVal, bad) ==
  LET r == PkiEncryptSecret(strVal, bad)
  IN IF ~r.ok
     THEN [val |-> <<>>, err |-> ErrEncrypt, calls |-> <<Call("encrypt", strVal, FALSE)>>]
     ELSE [val |-> r.out, err |-> NoErr, calls |-> <<Call("encrypt", strVal, TRUE)>>]

rotateVal(strVal, bad) ==
  LET d == decryptVal(strVal, bad)
  IN IF d.err # NoErr THEN d
     ELSE LET e == encryptVal(d.val, bad)
          IN [val |-> e.val, err |-> e.err, calls |-> d.calls \o e.calls]

keyInfo(val, bad) ==
  IF ~isEncrypted(val)
  THEN [val |-> val, err |-> ErrNotEncrypted, calls |-> <<>>]
  ELSE LET r == PkiKeyUsedForEncryptedFile(val, bad)
       IN IF ~r.ok
          THEN [val |-> val, err |-> ErrKeyInfo, calls |-> <<Call("keyinfo", val, FALSE)>>]
          ELSE [val |-> r.out, err |-> NoErr, calls |-> <<Call("keyinfo", val, TRUE)>>]

\* on error doString returns the original string with the error
doStringRaw(strVal, action, bad) ==
  CASE action = Decrypt -> decryptVal(strVal, bad)
    [] action = Encrypt ->
         IF ~isEncrypted(strVal) THEN encryptVal(strVal, bad)
         ELSE [val |-> strVal, err |-> NoErr, calls |-> <<>>]
    [] action = Validate -> keyInfo(strVal, bad)
    [] action = Rotate -> rotateVal(strVal, bad)
    [] OTHER -> [val |-> strVal, err |-> NoErr, calls |-> <<>>]

\* one visit of a string leaf, as recorded in the log
Visit(strVal, r) == [top |-> <<>>, leaf |-> strVal, calls |-> r.calls, err |-> r.err]

\* result of the dispatcher on a subtree: [val, err, log]
doString(val, action, bad) ==
  LET r == doStringRaw(val.s, action, bad)
  IN [val |-> Str(IF r.err # NoErr THEN val.s ELSE r.val),
      err |-> r.err,
      log |-> <<Visit(val.s, r)>>]

-----------------------------------------------------------------------------
(* Secure-value dispatcher.  Go iterates a map in an unspecified order, so  *)
(* each operator yields the SET of results over all iteration orders.      *)

Result(val, err, log) == [val |-> val, err |-> err, log |-> log]

RECURSIVE doSlice(_, _, _)
RECURSIVE doMap(_, _, _)
RECURSIVE SliceLoop(_, _, _, _, _, _)
RECURSIVE MapLoop(_, _, _, _, _, _, _)

\* the for-loop of doSlice from item i on; things and log are what it has built
SliceLoop(vals, i, things, log, action, bad) ==
  IF i > Len(vals.items)
  THEN {Result(SeqV(things), NoErr, log)}
  ELSE LET item == vals.items[i]
           Step(rs) ==
             UNION {IF r.err # NoErr
                    THEN {Result(vals, r.err, log \o r.log)}
                    ELSE SliceLoop(vals, i + 1, Append(things, r.val), log \o r.log, action, bad)
                    : r \in rs}
       IN CASE item.t = "nil" -> {Result(vals, ErrPanic, log)}
            [] item.t = "seq" -> Step(doSlice(item, action, bad))
            [] item.t = "map" -> Step(doMap(item, action, bad))
            [] item.t = "str" -> Step({doString(item, action, bad)})
            [] OTHER -> SliceLoop(vals, i + 1, things, log, action, bad)

\* doSlice building its result with the items in reverse order
doSlice_Prepend(vals, action, bad) ==
  {IF r.err # NoErr THEN r
   ELSE Result(SeqV([i \in DOMAIN r.val.items |->
                       r.val.items[Len(r.val.items) + 1 - i]]), r.err, r.log)
   : r \in SliceLoop(vals, 1, <<>>, <<>>, action, bad)}

doSlice(vals, action, bad) == SliceLoop(vals, 1, <<>>, <<>>, action, bad)

\* the for-loop of doMap over the keys not yet visited; ret, err, log are its locals
MapLoop(vals, rest, ret, err, log, action, bad) ==
  IF rest = {}
  THEN {Result(MapV(ret), err, log)}
  ELSE UNION {
    LET val == vals.m[key]
        Step(rs) ==
          UNION {IF r.err = ErrPanic
                 THEN {Result(MapV(ret), ErrPanic, log \o r.log)}
                 ELSE MapLoop(vals, rest \ {key}, MapSet(ret, key, r.val), r.err,
                              log \o r.log, action, bad)
                 : r \in rs}
    IN CASE val.t = "nil" -> {Result(MapV(ret), err, log)}
         [] val.t = "seq" -> Step(doSlice(val, action, bad))
         [] val.t = "map" -> Step(doMap(val, action, bad))
         [] val.t = "str" -> Step({doString(val, action, bad)})
         [] OTHER -> MapLoop(vals, rest \ {key}, ret, err, log, action, bad)
    : key \in rest}

doMap(vals, action, bad) ==
  MapLoop(vals, DOMAIN vals.m, EmptyMap, NoErr, <<>>, action, bad)

ProcessValues(vals, action, bad) ==
  CASE vals.t = "nil" -> {Result(Nil, NoErr, <<>>)}
    [] vals.t = "seq" -> doSlice(vals, action, bad)
    [] vals.t = "map" -> doMap(vals, action, bad)
    [] vals.t = "str" -> {doString(vals, action, bad)}
    [] OTHER -> {Result(Nil, NoErr, <<>>)}

-----------------------------------------------------------------------------
(* Path access *)

RECURSIVE Dig(_, _)
\* successive mapping-key lookups; nil when a part is missing or not in a mapping
Dig(v, parts) ==
  IF parts = <<>> THEN v
  ELSE IF v.t = "map" /\ Head(parts) \in DOMAIN v.m
       THEN Dig(v.m[Head(parts)], Tail(parts))
       ELSE Nil

\* Yaml.Get(args...)
Get(values, parts) == Dig(MapV(values), parts)

GetValueFromPath(values, path) == Get(values, Split(path, ":"))

validAction(action) ==
  action = Encrypt \/ action = Decrypt \/ action = Validate \/ action = Rotate

-----------------------------------------------------------------------------
(* FormatBuffer and PerformAction *)

NoBuffer == [header |-> <<>>, body |-> EmptyMap, written |-> FALSE]

\* FormatBuffer writing the renderer line for every action
FormatBuffer_HeaderAlways(values, keyMap, action) ==
  LET data == IF action # Validate THEN values ELSE keyMap
  IN IF DOMAIN data = {}
     THEN [buf |-> NoBuffer, err |-> ErrNoValues]
     ELSE [buf |-> [header |-> <<"#!yaml|gpg", "">>, body |-> data, written |-> TRUE],
           err |-> NoErr]

\* yamlv2.Marshal(data) is kept as the data it serialises
FormatBuffer(values, keyMap, action) ==
  LET data == IF action # Validate THEN values ELSE keyMap
  IN IF DOMAIN data = {}
     THEN [buf |-> NoBuffer, err |-> ErrNoValues]
     ELSE [buf |-> [header |-> IF action # Validate THEN <<"#!yaml|gpg", "">> ELSE <<>>,
                    body |-> data,
                    written |-> TRUE],
           err |-> NoErr]

\* the log entries of one ProcessValues call, tagged with the top-level key
Tagged(log, key) == [i \in DOMAIN log |-> [log[i] EXCEPT !.top = key]]

RECURSIVE TopLoop(_, _, _, _, _, _, _)
\* the for-loop of PerformAction over the top-level keys not yet visited:
\* [stuff, err, log]; an error returns at once
TopLoop(values, encPath, rest, stuff, log, action, bad) ==
  IF rest = {}
  THEN {[stuff |-> stuff, err |-> NoErr, log |-> log]}
  ELSE UNION {
    LET vals == GetValueFromPath(values, key)
    IN IF encPath # <<>> /\ encPath # key
       THEN TopLoop(values, encPath, rest \ {key}, MapSet(stuff, key, vals), log, action, bad)
       ELSE UNION {IF r.err # NoErr
                   THEN {[stuff |-> stuff, err |-> r.err, log |-> log \o Tagged(r.log, key)]}
                   ELSE TopLoop(values, encPath, rest \ {key}, MapSet(stuff, key, r.val),
                                log \o Tagged(r.log, key), action, bad)
                   : r \in ProcessValues(vals, action, bad)}
    : key \in rest}

\* the loop's result replacing the Document whatever the action
NewValues_Always(values, stuff, action) == stuff

\* if action != Validate { s.Yaml.Values = stuff }
NewValues(values, stuff, action) == IF action # Validate THEN stuff ELSE values

\* every outcome of s.PerformAction(action): [values, keyMap, buf, err, log]
PerformActionResults(values, keyMap, encPath, action, bad) ==
  IF ~validAction(action)
  THEN LET f == FormatBuffer(values, keyMap, action)
       IN {[values |-> values, keyMap |-> keyMap, buf |-> f.buf, err |-> f.err, log |-> <<>>]}
  ELSE {IF t.err # NoErr
        THEN [values |-> values, keyMap |-> keyMap, buf |-> NoBuffer, err |-> t.err,
              log |-> t.log]
        ELSE LET v == NewValues(values, t.stuff, action)
                 k == IF action # Validate THEN keyMap ELSE t.stuff
                 f == FormatBuffer(v, k, action)
             IN [values |-> v, keyMap |-> k, buf |-> f.buf, err |-> f.err, log |-> t.log]
        : t \in TopLoop(values, encPath, DOMAIN values, EmptyMap, <<>>, action, bad)}

-----------------------------------------------------------------------------
(* Document text.  A line is a record: an entry `key: value` (the value in  *)
(* YAML flow style), a comment `# words`, or a line that is not YAML.       *)

EntryLine(key, val) == [kind |-> "entry", key |-> key, val |-> val]

CommentLine(words) == [kind |-> "comment", key |-> words, val |-> Nil]

JunkLine == [kind |-> "junk", key |-> <<"@">>, val |-> Nil]

\* the text of a line, as scanner.Text() returns it
LineText(line) ==
  CASE line.kind = "entry" -> line.key \o <<":">> \o <<"value">>
    [] line.kind = "comment" -> <<"#">> \o line.key
    [] OTHER -> line.key

IncludeToken == <<"include", ":">>

\* ScanForIncludes: TRUE when it returns the include error
ScanForIncludes(text) ==
  \E i \in 1..Len(text) : Contains(LineText(text[i]), IncludeToken)

RECURSIVE UnmarshalFrom(_, _, _)
\* the mapping built from the entry lines, a later duplicate key winning
UnmarshalFrom(text, i, m) ==
  IF i > Len(text) THEN m
  ELSE IF text[i].kind = "entry"
       THEN UnmarshalFrom(text, i + 1, MapSet(m, text[i].key, text[i].val))
       ELSE UnmarshalFrom(text, i + 1, m)

\* yamlv2.Unmarshal(buf, &s.Yaml.Values): [values, err]
Unmarshal(text, into) ==
  IF \E i \in 1..Len(text) : text[i].kind = "junk"
  THEN [values |-> into, err |-> ErrYaml]
  ELSE [values |-> UnmarshalFrom(text, 1, into), err |-> NoErr]

\* ReadBytes: [values, isInclude, err]
ReadBytesResult(text, isInclude) ==
  LET scanErr == ScanForIncludes(text)
      u == Unmarshal(text, EmptyMap)
  IN [values |-> u.values,
      isInclude |-> (isInclude \/ scanErr),
      err |-> u.err]

-----------------------------------------------------------------------------
(* Inputs *)

P == <<"p">>

Q == <<"q">>

MP == pgpHeader \o P

PM == P \o pgpHeader

\* plaintexts on which the Key Backend may fail during a call
BadInputs == {Q}

KA == <<"a">>

KB == <<"b">>

KC == <<"c">>

KAB == <<"a", ":", "b">>

KInclude == <<"include">>

Strs == {Str(P), Str(Q), Str(MP), Str(PM)}

Leaves == Strs \cup {Nil, IntV(7)}

Tiny == {Str(P), Str(Q), Nil}

TinyPairs == {<<Str(P), Str(Q)>>, <<Str(Q), Str(P)>>, <<Str(P), Str(P)>>, <<Nil, Str(P)>>, <<Str(P), Nil>>}

Pairs ==
  ({Str(P), Str(Q)} \X {Str(P), Str(Q)})
  \cup {<<Str(P), Str(MP)>>, <<Str(MP), Str(P)>>, <<Str(MP), Str(Q)>>, <<Str(PM), Str(P)>>}
  \cup {<<Nil, Str(P)>>, <<Str(P), Nil>>, <<IntV(7), Str(P)>>, <<Str(P), IntV(7)>>}

Map1(k, x) == MapV(MapSet(EmptyMap, k, x))

Map2(k, x, l, y) == MapV(MapSet(MapSet(EmptyMap, k, x), l, y))

Sequences == {SeqV(<<>>)} \cup {SeqV(<<x>>) : x \in Leaves} \cup {SeqV(<<pr[1], pr[2]>>) : pr \in Pairs}

Mappings == {MapV(EmptyMap)} \cup {Map1(KB, x) : x \in Leaves} \cup {Map2(KB, pr[1], KC, pr[2]) : pr \in Pairs}

Nested ==
  {SeqV(<<Map2(KB, pr[1], KC, pr[2])>>) : pr \in TinyPairs}
  \cup {Map1(KB, SeqV(<<pr[1], pr[2]>>)) : pr \in TinyPairs}
  \cup {SeqV(<<SeqV(<<x>>), Str(P)>>) : x \in Tiny}
  \cup {Map2(KB, Map1(KC, pr[1]), KC, pr[2]) : pr \in TinyPairs}

ValsA == Leaves \cup Sequences \cup Mappings \cup Nested

Lines ==
  {EntryLine(KA, v) : v \in ValsA}
  \cup {EntryLine(KB, v) : v \in {Str(P), Str(MP)}}
  \cup {EntryLine(KAB, Str(P)), EntryLine(KInclude, SeqV(<<Str(P)>>))}
  \cup {CommentLine(<<"note">>), CommentLine(<<"no">> \o IncludeToken), JunkLine}

Texts == UNION {[1..n -> Lines] : n \in 0..MaxLines}

EncPaths == {<<>>, KA, KB}

-----------------------------------------------------------------------------
(* State machine of one Sls object *)

NoLeaf == [stage |-> "none"]

Fresh == [op |-> "New", action |-> "", bad |-> {}, err |-> NoErr, log |-> <<>>,
          pre |-> EmptyMap, preKeyMap |-> EmptyMap, buf |-> NoBuffer,
          include |-> FALSE, rerun |-> FALSE, calls |-> 0]

\* every visit of the call succeeded
CleanLog(log) == \A i \in DOMAIN log : log[i].err = NoErr

NoFile == [exists |-> FALSE, data |-> <<>>, mode |-> "none"]

Idle == [pc |-> "idle", stdOut |-> FALSE, buffer |-> <<>>, err |-> NoErr,
         byteCount |-> 0, srcSize |-> 0, dst0 |-> NoFile, failedAt |-> "none",
         copyRan |-> FALSE]

\* the frame of a ReadSlsFile call before it starts; dir is whether the
\* parent directory of the path exists
RdIdle == [pc |-> "idle", path |-> "", err |-> NoErr, failedAt |-> "none",
           file0 |-> NoFile, dir0 |-> FALSE, dir |-> FALSE]

\* no Sls object in use
DocIdle ==
  /\ Values = EmptyMap
  /\ KeyMap = EmptyMap
  /\ EncryptionPath = <<>>
  /\ IsInclude = FALSE
  /\ last = Fresh

\* no leaf under test
LeafIdle == leaf = NoLeaf

\* no write in progress
IOIdle ==
  /\ dst = NoFile
  /\ tmp = NoFile
  /\ open = {}
  /\ std = [stdout |-> <<>>, stderr |-> <<>>]
  /\ aw = Idle
  /\ rd = RdIdle

\* New("", p, encPath)
Init ==
  /\ Values = EmptyMap
  /\ KeyMap = EmptyMap
  /\ EncryptionPath \in EncPaths
  /\ IsInclude = FALSE
  /\ last = Fresh
  /\ LeafIdle
  /\ IOIdle

\* s.ReadBytes(buf), once per object as New / ReadSlsFile do
ReadBytes ==
  /\ last.op = "New"
  /\ \E text \in Texts :
       LET r == ReadBytesResult(text, IsInclude)
       IN /\ Values' = r.values
          /\ IsInclude' = r.isInclude
          /\ last' = [Fresh EXCEPT !.op = "ReadBytes", !.err = r.err,
                                   !.include = ScanForIncludes(text)]
  /\ UNCHANGED <<KeyMap, EncryptionPath, leaf, ioVars>>

\* s.PerformAction(action); a panic ends the process
PerformAction ==
  /\ last.err # ErrPanic
  /\ last.calls < MaxCalls
  /\ \E action \in Actions, bad \in SUBSET BadInputs :
       \E r \in PerformActionResults(Values, KeyMap, EncryptionPath, action, bad) :
          /\ Values' = r.values
          /\ KeyMap' = r.keyMap
          /\ last' = [op |-> "PerformAction", action |-> action, bad |-> bad,
                      err |-> r.err, log |-> r.log, pre |-> Values,
                      preKeyMap |-> KeyMap, buf |-> r.buf, include |-> FALSE,
                      calls |-> last.calls + 1,
                      rerun |-> (/\ last.op = "PerformAction"
                                 /\ last.action = Encrypt
                                 /\ action = Encrypt
                                 /\ last.err = NoErr
                                 /\ CleanLog(last.log))]
  /\ UNCHANGED <<EncryptionPath, IsInclude, leaf, ioVars>>

Next == ReadBytes \/ PerformAction

Spec == Init /\ [][Next]_vars

-----------------------------------------------------------------------------
(* Reading the last call *)

Performed == last.op = "PerformAction"

Mutating == last.action \in {Encrypt, Decrypt, Rotate}

\* the mapping the call produced: the Document, or the KeyMap for validate
Output == IF last.action = Validate THEN KeyMap ELSE Values

\* the top-level keys whose value the call handed to ProcessValues
Processed(key) == EncryptionPath = <<>> \/ EncryptionPath = key

\* what the call read as the value of a top-level key
InputAt(key) == GetValueFromPath(last.pre, key)

\* some visit of the call failed
SomeVisitFailed == \E i \in DOMAIN last.log : last.log[i].err # NoErr

RECURSIVE HasKind(_, _)
\* a value of dynamic type in kinds occurs in v, at any depth
HasKind(v, kinds) ==
  \/ v.t \in kinds
  \/ v.t = "seq" /\ \E i \in DOMAIN v.items : HasKind(v.items[i], kinds)
  \/ v.t = "map" /\ \E k \in DOMAIN v.m : HasKind(v.m[k], kinds)

DocHasKind(values, kinds) == \E k \in DOMAIN values : HasKind(values[k], kinds)

-----------------------------------------------------------------------------
(* C1..C3 *)

\* C1: a text with a line containing `include:` is rejected by ReadBytes: the
\* read returns the include-detected error and the Document holds no value
\* parsed from the text.
C1_IncludeRejected ==
  (last.op = "ReadBytes" /\ last.include) =>
     (last.err = ErrInclude /\ Values = EmptyMap)

\* C2: with a top-level element scope, a successful encrypt, decrypt or rotate
\* leaves every other top-level key in the Document with exactly the value it
\* had, and no leaf under another key is visited.
C2_ScopeIsolation ==
  (Performed /\ Mutating /\ last.err = NoErr /\ EncryptionPath # <<>>) =>
     /\ \A key \in DOMAIN last.pre \ {EncryptionPath} :
          key \in DOMAIN Values /\ Values[key] = last.pre[key]
     /\ \A i \in DOMAIN last.log : last.log[i].top = EncryptionPath

RECURSIVE SameKeySets(_, _)
\* every mapping of in, at any depth, has its key set in out
SameKeySets(in, out) ==
  CASE in.t = "map" ->
         /\ out.t = "map"
         /\ DOMAIN out.m = DOMAIN in.m
         /\ \A k \in DOMAIN in.m : SameKeySets(in.m[k], out.m[k])
    [] in.t = "seq" ->
         /\ out.t = "seq"
         /\ Len(out.items) = Len(in.items)
         /\ \A i \in DOMAIN in.items : SameKeySets(in.items[i], out.items[i])
    [] OTHER -> TRUE

\* C3: on a Document whose values are strings, sequences, mappings or null, a
\* successful PerformAction preserves the set of top-level keys and the key
\* set of every mapping at any depth.
C3_KeySetPreserved ==
  (Performed /\ last.err = NoErr /\ ~DocHasKind(last.pre, {"int"})) =>
     /\ DOMAIN Output = DOMAIN last.pre
     /\ \A key \in DOMAIN last.pre :
          Processed(key) => SameKeySets(InputAt(key), Output[key])

-----------------------------------------------------------------------------
(* C4..C8 *)

RECURSIVE Fails(_, _, _)
\* the dispatcher meets a failing leaf strategy or a nil sequence item under v
Fails(v, action, bad) ==
  CASE v.t = "str" -> doStringRaw(v.s, action, bad).err # NoErr
    [] v.t = "seq" ->
         \E i \in DOMAIN v.items : v.items[i].t = "nil" \/ Fails(v.items[i], action, bad)
    [] v.t = "map" -> \E k \in DOMAIN v.m : Fails(v.m[k], action, bad)
    [] OTHER -> FALSE

\* every item of the sequence is a string, a sequence or a mapping
ItemsShaped(v) == \A i \in DOMAIN v.items : v.items[i].t \in {"str", "seq", "map"}

RECURSIVE SeqsApplied(_, _, _, _)
\* every sequence of in on which the apply succeeds is, in out, a sequence of
\* the same length whose i-th item is the transformation of the i-th item
SeqsApplied(in, out, action, bad) ==
  CASE in.t = "seq" ->
         (ItemsShaped(in) /\ ~Fails(in, action, bad)) =>
            /\ out.t = "seq"
            /\ Len(out.items) = Len(in.items)
            /\ \A i \in DOMAIN in.items :
                 LET x == in.items[i]
                     y == out.items[i]
                 IN /\ y.t = x.t
                    /\ x.t = "str" => y.s = doStringRaw(x.s, action, bad).val
                    /\ SeqsApplied(x, y, action, bad)
    [] in.t = "map" ->
         out.t = "map" =>
            \A k \in (DOMAIN in.m) \cap (DOMAIN out.m) :
               SeqsApplied(in.m[k], out.m[k], action, bad)
    [] OTHER -> TRUE

RECURSIVE NullsKept(_, _)
\* every Null of in, at any depth, is a Null at the same position of out
NullsKept(in, out) ==
  CASE in.t = "nil" -> out.t = "nil"
    [] in.t = "map" ->
         /\ out.t = "map"
         /\ \A k \in DOMAIN in.m :
              HasKind(in.m[k], {"nil"}) =>
                 k \in DOMAIN out.m /\ NullsKept(in.m[k], out.m[k])
    [] in.t = "seq" ->
         /\ out.t = "seq"
         /\ Len(out.items) = Len(in.items) =>
              \A i \in DOMAIN in.items : NullsKept(in.items[i], out.items[i])
    [] OTHER -> TRUE

\* C5: a Null is the identity wherever it occurs: the call never crashes on
\* it, and after a successful call the output holds Null at the same position.
C5_NullIdentity ==
  Performed =>
     /\ last.err # ErrPanic
     /\ last.err = NoErr =>
          \A key \in DOMAIN last.pre :
             Processed(key) => NullsKept(InputAt(key), Output[key])

\* C6: fail-fast: a failing leaf is the last leaf the call visits, and its
\* error is the error PerformAction returns.
C6_FailFast ==
  Performed =>
     \A i \in DOMAIN last.log :
        last.log[i].err # NoErr =>
           (i = Len(last.log) /\ last.err = last.log[i].err)

\* C7: when a leaf-level action fails during PerformAction, the Document is
\* left as it was and no buffer is formatted.
C7_NoPartialMutation ==
  (Performed /\ SomeVisitFailed) =>
     (Values = last.pre /\ ~last.buf.written)

\* the Key Backend's encrypt was called during the last call
EncryptCalled ==
  \E i \in DOMAIN last.log :
     \E j \in DOMAIN last.log[i].calls : last.log[i].calls[j].op = "encrypt"

\* C8: on a Document of string leaves, PerformAction(encrypt) run again right
\* after a PerformAction(encrypt) whose backend calls all succeeded leaves the
\* Document equal and makes no backend encrypt call.
C8_EncryptIdempotent ==
  (Performed /\ last.rerun /\ ~DocHasKind(last.pre, {"nil", "int"})) =>
     (Values = last.pre /\ ~EncryptCalled /\ last.err = NoErr)

-----------------------------------------------------------------------------
(* The leaf strategies alone: doString applied to one string, again and     *)
(* again, as successive PerformAction calls apply it to one leaf.          *)

Tokens == {pgpHeader[1], "p", "q"}

LeafStrings == UNION {[1..n -> Tokens] : n \in 0..MaxStrLen}

InitLeaf ==
  /\ DocIdle
  /\ IOIdle
  /\ \E s \in LeafStrings :
       leaf = [stage |-> "leaf", orig |-> s, cur |-> s, err |-> NoErr,
               hist |-> <<>>, bads |-> <<>>, calls |-> <<>>]

\* doString(cur, action); the caller keeps the returned string
LeafApply ==
  /\ leaf.stage = "leaf"
  /\ leaf.err = NoErr
  /\ Len(leaf.hist) < MaxApply
  /\ \E action \in Actions, bad \in SUBSET BadInputs :
       LET r == doString(Str(leaf.cur), action, bad)
       IN leaf' = [leaf EXCEPT !.cur = r.val.s,
                               !.err = r.err,
                               !.hist = Append(@, action),
                               !.bads = Append(@, bad),
                               !.calls = r.log[1].calls]
  /\ UNCHANGED <<docVars, ioVars>>

NextLeaf == LeafApply

SpecLeaf == InitLeaf /\ [][NextLeaf]_vars

-----------------------------------------------------------------------------
(* C9 *)

\* C9: a string leaf p not produced by the Key Backend (not beginning with
\* the marker), encrypted and then decrypted with a backend that refuses no
\* input, is p again and neither step fails.
C9_RoundTrip ==
  (/\ leaf.stage = "leaf"
   /\ leaf.hist = <<Encrypt, Decrypt>>
   /\ leaf.bads = <<{}, {}>>
   /\ ~HasPrefix(leaf.orig, pgpHeader)) =>
     (leaf.err = NoErr /\ leaf.cur = leaf.orig)

-----------------------------------------------------------------------------
(* WriteSlsFile / atomicWrite / copyFile, one action per system call: the   *)
(* destination file is what another process sees between the calls.        *)
(* dst is the destination file, tmp the temporary file, open the file       *)
(* handles the call holds, aw the frame of the call.                       *)

Bytes == {"x", "y"}

Buffers == UNION {[1..n -> Bytes] : n \in 0..MaxBuf}

Prefix(data, n) == SubSeq(data, 1, n)

InitIO ==
  /\ DocIdle
  /\ LeafIdle
  /\ dst \in {NoFile} \cup
             {[exists |-> TRUE, data |-> d, mode |-> m] : d \in Buffers, m \in {"0600", "0644"}}
  /\ tmp = NoFile
  /\ open = {}
  /\ std = [stdout |-> <<>>, stderr |-> <<>>]
  /\ aw = Idle
  /\ rd = RdIdle

\* a step failed: the first error is the one atomicWrite keeps
Failed(step, e) ==
  [aw EXCEPT !.err = IF @ = NoErr THEN e ELSE @,
             !.failedAt = IF @ = "none" THEN step ELSE @]

ShouldCopy_Always(err) == TRUE

\* atomicWrite: if err == nil { err = copyFile(f.Name(), fullPath) }
ShouldCopy(err) == err = NoErr

\* WriteSlsFile up to the call of atomicWrite
WriteSlsFile ==
  /\ aw.pc = "idle"
  /\ \E buffer \in Buffers, stdOut \in BOOLEAN, mkdirOk \in BOOLEAN :
       LET call == [aw EXCEPT !.buffer = buffer, !.stdOut = stdOut, !.dst0 = dst]
       IN IF stdOut
          THEN /\ std' = [std EXCEPT !.stderr = @ \o buffer \o <<"\n">>]
               /\ aw' = [call EXCEPT !.pc = "done", !.byteCount = Len(buffer) + 1]
          ELSE /\ std' = std
               /\ aw' = IF mkdirOk
                        THEN [call EXCEPT !.pc = "TempFile"]
                        ELSE [call EXCEPT !.pc = "done", !.err = "error creating sls path",
                                          !.failedAt = "MkdirAll",
                                          !.byteCount = Len(buffer)]
  /\ UNCHANGED <<docVars, leaf, rd, dst, tmp, open>>

\* ioutil.TempFile
TempFile ==
  /\ aw.pc = "TempFile"
  /\ \E ok \in BOOLEAN :
       IF ok
       THEN /\ tmp' = [exists |-> TRUE, data |-> <<>>, mode |-> "0600"]
            /\ open' = open \cup {"f"}
            /\ aw' = [aw EXCEPT !.pc = "Write"]
       ELSE /\ aw' = [Failed("TempFile", "tempfile") EXCEPT !.pc = "done"]
            /\ UNCHANGED <<tmp, open>>
  /\ UNCHANGED <<docVars, leaf, rd, dst, std>>

\* f.Write(buffer.Bytes()): n bytes reach the file; fewer than all is an error
Write ==
  /\ aw.pc = "Write"
  /\ \E n \in 0..Len(aw.buffer), ok \in BOOLEAN :
       /\ ok => n = Len(aw.buffer)
       /\ tmp' = [tmp EXCEPT !.data = Prefix(aw.buffer, n)]
       /\ aw' = [(IF ok THEN aw ELSE Failed("Write", "write"))
                   EXCEPT !.pc = "Sync", !.byteCount = n]
  /\ UNCHANGED <<docVars, leaf, rd, dst, open, std>>

\* if err == nil { err = f.Sync() }
Sync ==
  /\ aw.pc = "Sync"
  /\ \E ok \in BOOLEAN :
       aw' = [(IF aw.err = NoErr /\ ~ok THEN Failed("Sync", "sync") ELSE aw)
                EXCEPT !.pc = "Close"]
  /\ UNCHANGED <<docVars, leaf, rd, dst, tmp, open, std>>

\* f.Close()
Close ==
  /\ aw.pc = "Close"
  /\ open' = open \ {"f"}
  /\ \E ok \in BOOLEAN :
       aw' = [(IF ok THEN aw ELSE Failed("Close", "close")) EXCEPT !.pc = "Chmod"]
  /\ UNCHANGED <<docVars, leaf, rd, dst, tmp, std>>

\* os.Chmod(f.Name(), 0600), then the copy when no step has failed
Chmod ==
  /\ aw.pc = "Chmod"
  /\ \E ok \in BOOLEAN :
       LET a == IF ok THEN aw ELSE Failed("Chmod", "chmod")
       IN /\ tmp' = IF ok THEN [tmp EXCEPT !.mode = "0600"] ELSE tmp
          /\ aw' = IF ShouldCopy(a.err)
                   THEN [a EXCEPT !.pc = "CopyStat", !.copyRan = TRUE]
                   ELSE [a EXCEPT !.pc = "done"]
  /\ UNCHANGED <<docVars, leaf, rd, dst, open, std>>

\* copyFile: os.Stat(src)
CopyStat ==
  /\ aw.pc = "CopyStat"
  /\ \E ok \in BOOLEAN :
       aw' = IF ok THEN [aw EXCEPT !.pc = "CopyOpen", !.srcSize = Len(tmp.data)]
             ELSE [Failed("CopyStat", "stat") EXCEPT !.pc = "done"]
  /\ UNCHANGED <<docVars, leaf, rd, dst, tmp, open, std>>

\* copyFile: os.Open(src)
CopyOpen ==
  /\ aw.pc = "CopyOpen"
  /\ \E ok \in BOOLEAN :
       IF ok
       THEN /\ open' = open \cup {"fsrc"}
            /\ aw' = [aw EXCEPT !.pc = "CopyCreate"]
       ELSE /\ open' = open
            /\ aw' = [Failed("CopyOpen", "open") EXCEPT !.pc = "done"]
  /\ UNCHANGED <<docVars, leaf, rd, dst, tmp, std>>

\* copyFile: os.Create(dst) truncates an existing file, keeping its mode, or
\* creates it with mode 0666 less the umask
CopyCreate ==
  /\ aw.pc = "CopyCreate"
  /\ \E ok \in BOOLEAN, created \in {"0600", "0644", "0666"} :
       IF ok
       THEN /\ dst' = [exists |-> TRUE, data |-> <<>>,
                       mode |-> IF dst.exists THEN dst.mode ELSE created]
            /\ open' = open \cup {"fdst"}
            /\ aw' = [aw EXCEPT !.pc = "CopyIO"]
       ELSE /\ UNCHANGED <<dst, open>>
            /\ aw' = [Failed("CopyCreate", "create") EXCEPT !.pc = "done"]
  /\ UNCHANGED <<docVars, leaf, rd, tmp, std>>

\* copyFile: io.Copy(fdst, fsrc), then the size check; short is a source that
\* ended before the size os.Stat reported
CopyIO ==
  /\ aw.pc = "CopyIO"
  /\ \E n \in 0..Len(tmp.data), outcome \in {"ok", "error", "short"} :
       /\ outcome = "ok" => n = Len(tmp.data)
       /\ outcome = "short" => n < aw.srcSize
       /\ dst' = [dst EXCEPT !.data = Prefix(tmp.data, n)]
       /\ aw' = CASE outcome = "ok" /\ n = aw.srcSize -> [aw EXCEPT !.pc = "CopyClose"]
                  [] outcome = "error" -> [Failed("CopyIO", "copy") EXCEPT !.pc = "done"]
                  [] OTHER -> [Failed("CopyIO", "short copy") EXCEPT !.pc = "done"]
  /\ UNCHANGED <<docVars, leaf, rd, tmp, open, std>>

\* copyFile: err = fsrc.Close(); if err != nil { return fdst.Close() }; return err
CopyClose ==
  /\ aw.pc = "CopyClose"
  /\ \E srcOk \in BOOLEAN, dstOk \in BOOLEAN :
       IF srcOk
       THEN /\ open' = open \ {"fsrc"}
            /\ aw' = [aw EXCEPT !.pc = "Remove"]
       ELSE /\ open' = open \ {"fsrc", "fdst"}
            /\ aw' = IF dstOk THEN [aw EXCEPT !.pc = "Remove"]
                     ELSE [Failed("CopyClose", "close") EXCEPT !.pc = "done"]
  /\ UNCHANGED <<docVars, leaf, rd, dst, tmp, std>>

\* if the temp file exists { err = os.Remove(f.Name()) }
Remove ==
  /\ aw.pc = "Remove"
  /\ \E ok \in BOOLEAN :
       IF ok
       THEN /\ tmp' = NoFile
            /\ aw' = [aw EXCEPT !.pc = "done"]
       ELSE /\ tmp' = tmp
            /\ aw' = [Failed("Remove", "remove") EXCEPT !.pc = "done"]
  /\ UNCHANGED <<docVars, leaf, rd, dst, open, std>>

NextIO ==
  \/ WriteSlsFile
  \/ TempFile
  \/ Write
  \/ Sync
  \/ Close
  \/ Chmod
  \/ CopyStat
  \/ CopyOpen
  \/ CopyCreate
  \/ CopyIO
  \/ CopyClose
  \/ Remove

SpecIO == InitIO /\ [][NextIO]_vars

-----------------------------------------------------------------------------
(* C10 *)

PreCopySteps == {"TempFile", "Write", "Sync", "Close", "Chmod"}

\* C10: when a step of atomicWrite before the copy fails, copyFile is never
\* run, the call returns an error, and the destination file is as it was.
C10_FailureBeforeCopy ==
  (aw.failedAt \in PreCopySteps) =>
     /\ ~aw.copyRan
     /\ dst = aw.dst0
     /\ aw.pc = "done" => aw.err # NoErr

\* C10 witness: the call returned after a failed sync, over an existing
\* destination that differs from the buffer.
C10_Witness ==
  /\ aw.pc = "done"
  /\ aw.failedAt = "Sync"
  /\ dst.exists
  /\ dst.data # aw.buffer
  /\ tmp.data = aw.buffer

-----------------------------------------------------------------------------
(* C11 *)

\* the destination holds what it held before the call
DstAsBefore == dst.exists = aw.dst0.exists /\ dst.data = aw.dst0.data

\* the destination holds the whole buffer
DstIsBuffer == dst.exists /\ dst.data = aw.buffer

\* C11: in every state during or after WriteSlsFile to a file, the destination
\* holds either its complete previous content or the complete new buffer, and a
\* call that did not write the buffer returns an error.
C11_NeverPartial ==
  (aw.pc # "idle" /\ ~aw.stdOut) =>
     /\ DstAsBefore \/ DstIsBuffer
     /\ (aw.pc = "done" /\ ~DstIsBuffer) => aw.err # NoErr

-----------------------------------------------------------------------------
(* C12 *)

RECURSIVE StrLeaves(_)
\* the strings that occur as leaves of v, at any depth
StrLeaves(v) ==
  CASE v.t = "str" -> {v.s}
    [] v.t = "seq" -> UNION {StrLeaves(v.items[i]) : i \in DOMAIN v.items}
    [] v.t = "map" -> UNION {StrLeaves(v.m[k]) : k \in DOMAIN v.m}
    [] OTHER -> {}

\* the string leaves under the top-level keys the call processes
ProcessedLeaves ==
  UNION {StrLeaves(InputAt(key)) : key \in {k \in DOMAIN last.pre : Processed(k)}}

\* the Key Backend identifies every leaf of the call that bears the marker
AllIdentifiable ==
  \A s \in ProcessedLeaves :
     isEncrypted(s) => PkiKeyUsedForEncryptedFile(s, last.bad).ok

RECURSIVE PlainAbsent(_, _)
\* no string leaf of in that is not encrypted stands at its position in out
PlainAbsent(in, out) ==
  CASE in.t = "str" -> isEncrypted(in.s) \/ out # in
    [] in.t = "seq" ->
         (out.t = "seq" /\ Len(out.items) = Len(in.items)) =>
            \A i \in DOMAIN in.items : PlainAbsent(in.items[i], out.items[i])
    [] in.t = "map" ->
         out.t = "map" =>
            \A k \in (DOMAIN in.m) \cap (DOMAIN out.m) : PlainAbsent(in.m[k], out.m[k])
    [] OTHER -> TRUE

\* C12: in a validate pass over a Document or scope without nulls whose
\* encrypted leaves the backend can all identify, a string leaf that is not
\* encrypted does not abort the pass (no not-encrypted error is returned and
\* every encrypted leaf is identified) and is absent from KeyMap.
C12_PlainLeafSkipped ==
  (Performed /\ last.action = Validate /\ AllIdentifiable
     /\ ~DocHasKind(last.pre, {"nil"})) =>
     /\ last.err # ErrNotEncrypted
     /\ \A s \in ProcessedLeaves :
          isEncrypted(s) =>
             \E i \in DOMAIN last.log : last.log[i].leaf = s /\ last.log[i].err = NoErr
     /\ \A key \in (DOMAIN last.pre) \cap (DOMAIN KeyMap) :
          Processed(key) => PlainAbsent(InputAt(key), KeyMap[key])

-----------------------------------------------------------------------------
(* C13 *)

\* C13: PerformAction(validate) never mutates the Document: with or without
\* error, Values after the call equals Values before it.
C13_ValidateKeepsDocument ==
  (Performed /\ last.action = Validate) => Values = last.pre

\* C13 witness: a validate pass identified an encrypted leaf, changed KeyMap
\* and left the Document, which differs from KeyMap, as it was.
C13_Witness ==
  /\ Performed /\ last.action = Validate /\ last.err = NoErr
  /\ KA \in DOMAIN last.pre
  /\ last.pre[KA] = Str(MP)
  /\ KeyMap # last.preKeyMap
  /\ KeyMap[KA] = Str(KeyId)
  /\ Values = last.pre

-----------------------------------------------------------------------------
(* C14 *)

\* the identity strings the Key Backend returned during the call
Identities ==
  {KeyId : i \in {j \in DOMAIN last.log :
                    \E c \in DOMAIN last.log[j].calls :
                       last.log[j].calls[c].op = "keyinfo" /\ last.log[j].calls[c].ok}}

\* C14: after a validate pass that set KeyMap, with or without a scope, every
\* scalar in KeyMap is an identity string the Key Backend returned during the
\* pass for an encrypted leaf: KeyMap holds no raw value of the Document.
C14_OnlyIdentities ==
  (Performed /\ last.action = Validate /\ last.err \in {NoErr, ErrNoValues}) =>
     \A key \in DOMAIN KeyMap :
        /\ StrLeaves(KeyMap[key]) \subseteq Identities
        /\ ~HasKind(KeyMap[key], {"int"})

-----------------------------------------------------------------------------
(* C15 *)

\* C15: the buffer a successful PerformAction returns begins with the line
\* `#!yaml|gpg` and an empty line, followed by the Document, for encrypt,
\* decrypt and rotate; for validate it has no such header and holds KeyMap.
C15_HeaderByAction ==
  (Performed /\ last.err = NoErr) =>
     /\ last.buf.written
     /\ Mutating => (last.buf.header = <<"#!yaml|gpg", "">> /\ last.buf.body = Values)
     /\ last.action = Validate => (last.buf.header = <<>> /\ last.buf.body = KeyMap)

\* C15 witness: a rotate returned the header followed by the re-encrypted
\* Document.
C15_Witness ==
  /\ Performed /\ last.action = Rotate /\ last.err = NoErr
  /\ last.pre # EmptyMap
  /\ Values # last.pre
  /\ last.buf.header = <<"#!yaml|gpg", "">>
  /\ last.buf.body = Values

-----------------------------------------------------------------------------
(* C16 *)

\* the backend calls of one rotate visit are those of decrypt-then-encrypt
RotateVisit(e) ==
  IF ~HasPrefix(e.leaf, pgpHeader)
  THEN /\ Len(e.calls) = 1
       /\ e.calls[1].op = "encrypt"
       /\ e.calls[1].arg = e.leaf
  ELSE /\ Len(e.calls) >= 1
       /\ e.calls[1].op = "decrypt"
       /\ e.calls[1].arg = e.leaf
       /\ IF e.calls[1].ok
          THEN /\ Len(e.calls) = 2
               /\ e.calls[2].op = "encrypt"
               /\ e.calls[2].arg = PkiDecryptSecret(e.leaf, last.bad).out
          ELSE Len(e.calls) = 1 /\ e.err # NoErr

\* the strings the Key Backend's encrypt returned during the call
Encrypted ==
  UNION {{PkiEncryptSecret(last.log[i].calls[c].arg, last.bad).out :
            c \in {d \in DOMAIN last.log[i].calls :
                     last.log[i].calls[d].op = "encrypt" /\ last.log[i].calls[d].ok}}
         : i \in DOMAIN last.log}

\* C16: a rotate visit of a leaf without the marker makes no decrypt call and
\* encrypts it; a visit of a leaf with the marker decrypts it and encrypts the
\* plaintext, and a failed decrypt ends the visit with an error before any
\* encrypt call.  After a successful rotate of the whole Document every string
\* leaf is a result of the backend's encrypt.
C16_RotateIsDecryptEncrypt ==
  (Performed /\ last.action = Rotate) =>
     /\ \A i \in DOMAIN last.log : RotateVisit(last.log[i])
     /\ (last.err = NoErr /\ EncryptionPath = <<>>) =>
           \A key \in DOMAIN Values : StrLeaves(Values[key]) \subseteq Encrypted

-----------------------------------------------------------------------------
(* C17 *)

\* C17: a string is taken for encrypted exactly when it begins with the
\* marker: encrypt calls the Key Backend for every string that does not begin
\* with it, decrypt and validate call the backend only for strings that do.
C17_PrefixClassifies ==
  (leaf.stage = "leaf" /\ Len(leaf.hist) = 1) =>
     LET called == leaf.calls # <<>>
         marked == HasPrefix(leaf.orig, pgpHeader)
     IN /\ leaf.hist[1] = Encrypt => (called <=> ~marked)
        /\ leaf.hist[1] \in {Decrypt, Validate} => (called => marked)

-----------------------------------------------------------------------------
(* C18 *)

\* atomicWrite was called and has returned
AtomicWriteReturned == aw.pc = "done" /\ ~aw.stdOut /\ aw.failedAt # "MkdirAll"

\* C18: when atomicWrite returns, with or without error, the temporary file
\* no longer exists and no file handle opened during the call is still open.
C18_NothingLeftBehind ==
  AtomicWriteReturned => (~tmp.exists /\ open = {})

-----------------------------------------------------------------------------
(* C19 *)

\* C19: after a WriteSlsFile to a file that returned no error, the destination
\* exists with permission bits 0600, whether it existed before the call or not.
C19_DestinationMode ==
  (aw.pc = "done" /\ ~aw.stdOut /\ aw.err = NoErr) =>
     (dst.exists /\ dst.mode = "0600")

-----------------------------------------------------------------------------
(* ReadSlsFile, one action per system call.  dst is the file at s.FilePath, *)
(* rd the frame of the call; rd.failedAt names the first system call the    *)
(* environment made fail.                                                  *)

ErrNoPath == "no file path given"

ErrNoFile == "no such file or directory"

StdoutName == "/dev/stdout"

\* the values of s.FilePath: none, os.Stdout.Name(), a file
FilePaths == {"", StdoutName, "file"}

\* what a file can hold
FileTexts == {<<>>} \cup {<<line>> : line \in Lines}

InitRead ==
  /\ DocIdle
  /\ LeafIdle
  /\ dst \in {NoFile} \cup
             {[exists |-> TRUE, data |-> text, mode |-> "0644"] : text \in FileTexts}
  /\ tmp = NoFile
  /\ open = {}
  /\ std = [stdout |-> <<>>, stderr |-> <<>>]
  /\ aw = Idle
  /\ \E dir \in BOOLEAN :
       /\ dst.exists => dir
       /\ rd = [RdIdle EXCEPT !.dir = dir]

\* an environment failure of a system call of ReadSlsFile
RdFailed(step, e) ==
  [rd EXCEPT !.err = e, !.failedAt = IF @ = "none" THEN step ELSE @]

\* ReadSlsFile never taking the create branch
ShouldCreate_Never(stat) == FALSE

\* if _, statErr := os.Stat(s.FilePath); os.IsNotExist(statErr)
ShouldCreate(stat) == stat = "notexist"

\* ReadSlsFile up to the os.Stat of the path
ReadSlsFile ==
  /\ rd.pc = "idle"
  /\ \E path \in FilePaths, stat \in {"ok", "notexist", "denied"} :
       LET call == [rd EXCEPT !.path = path, !.file0 = dst, !.dir0 = rd.dir]
       IN /\ stat = "ok" => dst.exists
          /\ stat = "notexist" => ~dst.exists
          /\ rd' = CASE path = "" -> [call EXCEPT !.pc = "done", !.err = ErrNoPath]
                     [] path = StdoutName -> [call EXCEPT !.pc = "done"]
                     [] OTHER ->
                          [call EXCEPT !.pc = IF ShouldCreate(stat) THEN "MkdirAll"
                                              ELSE "ReadFile",
                                       !.failedAt = IF stat = "denied" THEN "Stat" ELSE @]
  /\ UNCHANGED <<docVars, leaf, dst, tmp, open, std, aw>>

\* os.MkdirAll(dir, 0700)
MkdirAll ==
  /\ rd.pc = "MkdirAll"
  /\ \E ok \in BOOLEAN :
       rd' = IF ok THEN [rd EXCEPT !.pc = "OpenFile", !.dir = TRUE]
             ELSE [RdFailed("MkdirAll", "mkdir") EXCEPT !.pc = "done"]
  /\ UNCHANGED <<docVars, leaf, dst, tmp, open, std, aw>>

\* os.OpenFile(s.FilePath, os.O_RDONLY|os.O_CREATE, 0600): creates the file
\* when it is missing, never truncates; the handle is dropped unclosed
OpenFile ==
  /\ rd.pc = "OpenFile"
  /\ \E ok \in BOOLEAN :
       IF ok
       THEN /\ dst' = IF dst.exists THEN dst
                      ELSE [exists |-> TRUE, data |-> <<>>, mode |-> "0600"]
            /\ open' = open \cup {"created"}
            /\ rd' = [rd EXCEPT !.pc = "ReadFile"]
       ELSE /\ UNCHANGED <<dst, open>>
            /\ rd' = [RdFailed("OpenFile", "open") EXCEPT !.pc = "done"]
  /\ UNCHANGED <<docVars, leaf, tmp, std, aw>>

\* filepath.Abs, ioutil.ReadFile(fullPath), then return s.ReadBytes(buf)
ReadFile ==
  /\ rd.pc = "ReadFile"
  /\ \E ok \in BOOLEAN :
       IF ~dst.exists
       THEN /\ rd' = [rd EXCEPT !.pc = "done", !.err = ErrNoFile]
            /\ UNCHANGED <<Values, IsInclude, last>>
       ELSE IF ~ok
       THEN /\ rd' = [RdFailed("ReadFile", "read") EXCEPT !.pc = "done"]
            /\ UNCHANGED <<Values, IsInclude, last>>
       ELSE LET r == ReadBytesResult(dst.data, IsInclude)
            IN /\ Values' = r.values
               /\ IsInclude' = r.isInclude
               /\ last' = [Fresh EXCEPT !.op = "ReadBytes", !.err = r.err,
                                        !.include = ScanForIncludes(dst.data)]
               /\ rd' = [rd EXCEPT !.pc = "done", !.err = r.err]
  /\ UNCHANGED <<KeyMap, EncryptionPath, leaf, dst, tmp, open, std, aw>>

NextRead ==
  \/ ReadSlsFile
  \/ MkdirAll
  \/ OpenFile
  \/ ReadFile

SpecRead == InitRead /\ [][NextRead]_vars

-----------------------------------------------------------------------------
(* C20 *)

\* C20: ReadSlsFile on a path that does not exist, when no system call fails,
\* leaves the parent directories and an empty file at the path and returns
\* nil with an empty Document; it never changes a file that exists; with an
\* empty path it returns an error and touches nothing.
C20_ReadCreatesMissing ==
  /\ (rd.pc = "done" /\ rd.path = "file" /\ ~rd.file0.exists /\ rd.failedAt = "none") =>
        /\ rd.err = NoErr
        /\ rd.dir
        /\ dst.exists /\ dst.data = <<>>
        /\ Values = EmptyMap
  /\ (rd.pc # "idle" /\ rd.file0.exists) => dst = rd.file0
  /\ (rd.pc # "idle" /\ rd.path = "") =>
        /\ rd.pc = "done"
        /\ rd.err = ErrNoPath
        /\ dst = rd.file0 /\ rd.dir = rd.dir0 /\ open = {}

\* C20 witness: the call returned nil after creating the directory and the
\* file, neither of which existed.
C20_Witness ==
  /\ rd.pc = "done" /\ rd.path = "file" /\ rd.err = NoErr
  /\ ~rd.file0.exists /\ ~rd.dir0
  /\ rd.dir /\ dst.exists /\ dst.data = <<>>
  /\ Values = EmptyMap

-----------------------------------------------------------------------------
(* C21 *)

\* C21: when the output path is the standard output, WriteSlsFile writes
\* exactly the buffer's bytes to standard output, creates no temp file and
\* touches no file, and returns the buffer's length as the byte count.
C21_StdoutExact ==
  (aw.pc = "done" /\ aw.stdOut) =>
     /\ std.stdout = aw.buffer
     /\ std.stderr = <<>>
     /\ aw.byteCount = Len(aw.buffer)
     /\ tmp = NoFile /\ dst = aw.dst0 /\ open = {}

-----------------------------------------------------------------------------
(* C22 *)

RECURSIVE IntsKept(_, _)
\* every integer of in, at any depth, is the same integer at the same position
\* of out
IntsKept(in, out) ==
  CASE in.t = "int" -> out = in
    [] in.t = "map" ->
         /\ out.t = "map"
         /\ \A k \in DOMAIN in.m :
              HasKind(in.m[k], {"int"}) =>
                 k \in DOMAIN out.m /\ IntsKept(in.m[k], out.m[k])
    [] in.t = "seq" ->
         /\ out.t = "seq"
         /\ Len(out.items) = Len(in.items)
         /\ \A i \in DOMAIN in.items : IntsKept(in.items[i], out.items[i])
    [] OTHER -> TRUE

\* C22: after a successful encrypt, decrypt or rotate of a Document without
\* nulls, every leaf that is not a string (an integer) is in the Document
\* unchanged at its position, as a top-level value, a mapping value or a
\* sequence item, and the only leaves visited are strings.
C22_NonStringsKept ==
  (Performed /\ Mutating /\ last.err = NoErr /\ ~DocHasKind(last.pre, {"nil"})) =>
     /\ \A key \in DOMAIN last.pre :
          key \in DOMAIN Values /\ IntsKept(InputAt(key), Values[key])
     /\ \A i \in DOMAIN last.log : last.log[i].leaf \in ProcessedLeaves

====
